---------------------------- MODULE Spec2Model ----------------------------
(***************************************************************************)
(* A model of newspaper.article.Article (src/newspaper/article.py): the    *)
(* staged lifecycle download -> parse -> nlp, the field setters and the    *)
(* validity heuristics; of two parse() calls that share a local storage;   *)
(* and of the queue worker of src/parse.py.                                *)
(*                                                                         *)
(* Python values are modelled as follows.                                  *)
(*   - a (unicode) string is a sequence of one-character strings, so that  *)
(*     slicing, splitting and substring tests are computed; u'' is <<>>;   *)
(*   - a list is a sequence, None is the record None;                      *)
(*   - a parsed tree is a record [page, cleaned]: which page it was parsed *)
(*     from and whether the cleaner has run on it;                         *)
(*   - a raised exception is the name of its class in the variable raised. *)
(***************************************************************************)
EXTENDS Integers, Sequences, FiniteSets, TLC

VARIABLES
    art,      \* the Article object: a record of its fields, or NoArticle
    op,       \* the operation the last step called
    args,     \* the arguments of that call (<<>> for a call without arguments)
    raised,   \* the exception that call raised, "" when it returned
    ret,      \* the value that call returned (None for a procedure)
    calls,    \* the collaborators that call invoked, in order
    fetched,  \* how many times the network has been asked for the page
    storage,  \* the names of the files in configs.local_storage_path
    procs,    \* the parse() calls that run concurrently on that storage
    bus       \* the channels and the worker of src/parse.py

vars == <<art, op, args, raised, ret, calls, fetched, storage, procs, bus>>

\* the network is asked for the page at most MaxFetches times
MaxFetches == 2

---------------------------------------------------------------------------
(* Configuration: the policy values of the Configuration object the        *)
(* article is constructed with (self.configs), scaled down.                *)

MAX_TITLE == 5

MAX_TEXT == 70

MAX_SUMMARY == 2

MAX_KEYWORDS == 2

MAX_AUTHORS == 2

MIN_WORD_COUNT == 52

MIN_SENT_COUNT == 3

\* the margin of set_text: text[:MAX_TEXT-5]
TEXT_MARGIN == 5

\* the margin of is_valid_body: MIN_WORD_COUNT - 50
WORD_COUNT_MARGIN == 50

---------------------------------------------------------------------------
(* Python values and string operations                                     *)

None == [none |-> TRUE]

Min(a, b) == IF a <= b THEN a ELSE b

Max(a, b) == IF a >= b THEN a ELSE b

\* c * n
Rep(c, n) == [i \in 1..n |-> c]

\* s[:n]
Slice(s, n) ==
    IF n >= 0 THEN SubSeq(s, 1, Min(n, Len(s)))
              ELSE SubSeq(s, 1, Max(Len(s) + n, 0))

\* the first index at which sub occurs in s, 0 when it does not
IndexOf(sub, s) ==
    LET hits == {i \in 1..(Len(s) - Len(sub) + 1) :
                    SubSeq(s, i, i + Len(sub) - 1) = sub}
    IN  IF hits = {} THEN 0 ELSE CHOOSE i \in hits : \A j \in hits : i <= j

\* sub in s
Contains(sub, s) == IndexOf(sub, s) # 0

RECURSIVE Split_Whitespace(_, _)
\* mutant: s.split(), which drops the empty pieces, for s.split(c)
Split_Whitespace(s, c) ==
    LET i    == IndexOf(<<c>>, s)
        head == IF i = 0 THEN s ELSE SubSeq(s, 1, i - 1)
        rest == IF i = 0 THEN <<>> ELSE Split_Whitespace(SubSeq(s, i + 1, Len(s)), c)
    IN  IF head = <<>> THEN rest ELSE <<head>> \o rest

RECURSIVE Split(_, _)
\* s.split(c): the pieces of s between the occurrences of the character c
Split(s, c) ==
    LET i == IndexOf(<<c>>, s)
    IN  IF i = 0 THEN <<s>>
        ELSE <<SubSeq(s, 1, i - 1)>> \o Split(SubSeq(s, i + 1, Len(s)), c)

\* one character of utils.fix_unicode: a mis-encoded character is repaired
FixChar(c) == IF c = "~" THEN "e" ELSE c

\* utils.fix_unicode(inputstr)
fix_unicode(s) == [i \in 1..Len(s) |-> FixChar(s[i])]

---------------------------------------------------------------------------
(* newspaper.urls                                                          *)

SchemeSep == <<":", "/", "/">>

\* urls.get_scheme(url)
get_scheme(url) ==
    LET i == IndexOf(SchemeSep, url)
    IN  IF i = 0 THEN <<>> ELSE SubSeq(url, 1, i - 1)

\* urls.get_domain(url)
get_domain(url) ==
    LET i == IndexOf(SchemeSep, url)
        rest == SubSeq(url, i + 3, Len(url))
        j == IndexOf(<<"/">>, rest)
    IN  IF i = 0 THEN <<>>
        ELSE IF j = 0 THEN rest ELSE SubSeq(rest, 1, j - 1)

\* urls.prepare_url(url, source_url): url resolved against source_url
prepare_url(url, source_url) ==
    IF get_scheme(url) # <<>> THEN url ELSE source_url \o url

---------------------------------------------------------------------------
(* The web: what network.get_html can return, and what the parser and the  *)
(* extractors find in it.  An html document is a string of one symbol, the *)
(* name of the page; u'' is the empty document.                            *)

Chars(w) == <<w>>

\* a text of exactly w space-separated words and s period-separated sentences
TextOf(w, s) == Rep(".", s - 1) \o Rep(" ", w - 1)

NoPage ==
    [meta_type |-> <<>>, title |-> <<>>, authors |-> <<>>, meta_keywords |-> <<>>,
     meta |-> <<>>, tags |-> {}, has_node |-> FALSE, text |-> <<>>,
     movies |-> <<>>, top_img |-> <<>>, imgs |-> <<>>]

MetaArticle == <<"article">>

MetaWebsite == <<"website">>

TitleThreeWords == <<"a", " ", "b", " ", "~">>

\* what each page holds
PageData(p) ==
    LET full == [NoPage EXCEPT !.meta = <<"m">>, !.tags = {<<"t">>},
                               !.title = TitleThreeWords, !.authors = << <<"J">> >>,
                               !.meta_keywords = <<"k", ",", " ", "~">>,
                               !.has_node = TRUE,
                               !.text = TextOf(MIN_WORD_COUNT, MIN_SENT_COUNT),
                               !.movies = << <<"v">> >>,
                               !.top_img = <<"i">>, !.imgs = << <<"i">> >>]
    IN  CASE p = "web_full"   -> [full EXCEPT !.meta_type = MetaWebsite]
          [] p = "art_none"   -> [NoPage EXCEPT !.meta_type = MetaArticle,
                                                !.title = <<"a">>]
          [] p = "web_long"   -> [full EXCEPT !.meta_type = MetaWebsite,
                                     !.title = Rep("a", MAX_TITLE + 2),
                                     !.text = Rep("a", MAX_TEXT),
                                     !.authors = [i \in 1..(MAX_AUTHORS + 1) |-> <<"J", "~">>],
                                     !.meta_keywords = Rep(",", MAX_KEYWORDS),
                                     !.top_img = <<>>]
          [] p = "web_nosent" -> [full EXCEPT !.meta_type = MetaWebsite,
                                     !.text = TextOf(MIN_WORD_COUNT, MIN_SENT_COUNT - 1)]
          [] p = "web_short"  -> [full EXCEPT !.meta_type = MetaWebsite,
                                     !.text = TextOf(MIN_WORD_COUNT - 1, MIN_SENT_COUNT)]
          [] p = "web_bare"   -> [NoPage EXCEPT !.meta_type = MetaWebsite,
                                                !.title = <<"a">>]
          [] OTHER            -> NoPage

Pages == {"web_full", "art_none", "web_long", "web_nosent", "web_short", "web_bare"}

\* the documents network.get_html returns
HtmlInputs == {<<>>} \cup {Chars(p) : p \in Pages}

\* the documents it returns while the collaborators of parse may raise
StageHtmlInputs == {<<>>, Chars("web_full")}

\* parser.fromstring(html): the tree of the page
fromstring(html) ==
    [page |-> IF html = <<>> THEN "" ELSE html[1], cleaned |-> FALSE]

\* copy.deepcopy(doc): an independent equal value
deepcopy(doc) == doc

\* parser.get_meta_type(doc)
get_meta_type(doc) == IF doc = None THEN <<>> ELSE PageData(doc.page).meta_type

---------------------------------------------------------------------------
(* Article.__init__                                                        *)

NoArticle == [constructed |-> FALSE]

\* source_url = get_scheme(url) + '://' + get_domain(url)
DerivedSourceUrl(url) == get_scheme(url) \o SchemeSep \o get_domain(url)

\* if source_url is None or source_url == '': raise
BadSourceUrl(source_url) == source_url = <<>>

\* Article(url, title, source_url): an optional source_url is <<>> for None
\* and <<s>> for the string s.  Returns the object, or the exception raised.
ArticleInit(url, title, source_url) ==
    LET src == IF source_url = <<>> THEN DerivedSourceUrl(url) ELSE source_url[1]
    IN  IF BadSourceUrl(src)
        THEN [art |-> NoArticle, raised |-> "ArticleException"]
        ELSE [raised |-> "",
              art |-> [constructed |-> TRUE,
                       source_url |-> fix_unicode(src),
                       url |-> prepare_url(fix_unicode(url), fix_unicode(src)),
                       title |-> fix_unicode(title),
                       top_img |-> <<>>, imgs |-> <<>>, text |-> <<>>,
                       keywords |-> <<>>, authors |-> <<>>,
                       published_date |-> <<>>, summary |-> <<>>, html |-> <<>>,
                       is_parsed |-> FALSE, is_downloaded |-> FALSE,
                       meta_description |-> <<>>, meta_lang |-> <<>>,
                       meta_favicon |-> <<>>, meta_keywords |-> <<>>,
                       canonical_link |-> <<>>, top_node |-> None, tags |-> {},
                       movies |-> <<>>, final_url |-> <<>>, link_hash |-> <<>>,
                       doc |-> None, raw_doc |-> None,
                       additional_data |-> <<>>]]

UrlPlain == <<"h", ":", "/", "/", "e", "/", "a">>

UrlMedia == <<"h", ":", "/", "/", "e", "/", "v", "i", "d", "e", "o">>

UrlRelative == <<"/", "a">>

\* the arguments the constructor is called with: <<url, title, source_url>>
CtorInputs ==
    { <<UrlPlain, Rep("a", MAX_TITLE + 1), <<>> >>,
      <<UrlMedia, <<"a", " ", "~">>, << <<"h", ":", "/", "/", "e">> >> >>,
      <<UrlRelative, <<>>, <<>> >>,
      << <<>>, <<>>, <<>> >>,
      <<UrlPlain, <<>>, << <<>> >> >> }

\* the arguments of the article whose stages are run
StageCtorInputs ==
    { <<UrlPlain, <<"a", " ", "~">>, <<>> >>,
      <<UrlPlain, <<>>, << <<>> >> >> }

\* the arguments of the articles whose body is checked
BodyCtorInputs ==
    { <<UrlPlain, Rep("a", MAX_TITLE + 1), <<>> >>,
      <<UrlPlain, <<"a", " ", "~">>, <<>> >>,
      <<UrlMedia, <<"a", " ", "~">>, << <<"h", ":", "/", "/", "e">> >> >> }

\* no worker is running and nothing was sent
NoBus ==
    [inbox |-> <<>>, results |-> <<>>, alive |-> FALSE, raised |-> "", consumed |-> 0]

\* the state after Article(url, title, source_url) for arguments of `inputs`:
\* one Article, no scratch file, no concurrent parse and no worker
Construct(inputs) ==
    \E c \in inputs :
        LET r == ArticleInit(c[1], c[2], c[3])
        IN  /\ art = r.art
            /\ op = "__init__"
            /\ args = [url |-> c[1], title |-> c[2], source_url |-> c[3]]
            /\ raised = r.raised
            /\ ret = None
            /\ calls = <<>>
            /\ fetched = 0
            /\ storage = {}
            /\ procs = <<>>
            /\ bus = NoBus

Init == Construct(StageCtorInputs)

Constructed == art # NoArticle

---------------------------------------------------------------------------
(* The setters.  Each returns the article after the call and the exception *)
(* raised.  The argument of set_keywords and set_authors is a value        *)
(* [type, val]: its Python type and, for a list or a string, its elements. *)

List(xs) == [type |-> "list", val |-> xs]

Str(s) == [type |-> "str", val |-> s]

Returned(a) == [art |-> a, raised |-> ""]

Raised(a, exc) == [art |-> a, raised |-> exc]

\* if title: / if text: / if keywords: / if authors:
Truthy(v) == v # <<>>

\* Article.set_title(title)
set_title(a, title) ==
    LET t == fix_unicode(Slice(title, MAX_TITLE))
    IN  Returned(IF Truthy(t) THEN [a EXCEPT !.title = t] ELSE a)

\* mutant: set_text without its `if text:`
set_text_Unguarded(a, text) ==
    Returned([a EXCEPT !.text = fix_unicode(Slice(text, MAX_TEXT - TEXT_MARGIN))])

\* Article.set_text(text)
set_text(a, text) ==
    LET t == fix_unicode(Slice(text, MAX_TEXT - TEXT_MARGIN))
    IN  Returned(IF Truthy(t) THEN [a EXCEPT !.text = t] ELSE a)

\* isinstance(x, list)
isinstance_list(x) == x.type = "list"

\* [utils.fix_unicode(k) for k in xs]
FixEach(xs) == [i \in 1..Len(xs) |-> fix_unicode(xs[i])]

\* mutant: set_keywords ignoring an input that is not a list
set_keywords_Lenient(a, keywords) ==
    IF isinstance_list(keywords) /\ Truthy(keywords.val)
    THEN Returned([a EXCEPT !.keywords = FixEach(Slice(keywords.val, MAX_KEYWORDS))])
    ELSE Returned(a)

\* Article.set_keywords(keywords)
set_keywords(a, keywords) ==
    IF ~isinstance_list(keywords) THEN Raised(a, "Exception")
    ELSE IF Truthy(keywords.val)
         THEN Returned([a EXCEPT !.keywords = FixEach(Slice(keywords.val, MAX_KEYWORDS))])
         ELSE Returned(a)

\* mutant: set_authors without the cap of MAX_AUTHORS
set_authors_Uncapped(a, authors) ==
    IF ~isinstance_list(authors) THEN Raised(a, "Exception")
    ELSE IF Truthy(authors.val)
         THEN Returned([a EXCEPT !.authors = FixEach(authors.val)])
         ELSE Returned(a)

\* Article.set_authors(authors)
set_authors(a, authors) ==
    IF ~isinstance_list(authors) THEN Raised(a, "Exception")
    ELSE IF Truthy(authors.val)
         THEN Returned([a EXCEPT !.authors = FixEach(Slice(authors.val, MAX_AUTHORS))])
         ELSE Returned(a)

\* Article.set_summary(summary)
set_summary(a, summary) ==
    Returned([a EXCEPT !.summary = fix_unicode(Slice(summary, MAX_SUMMARY))])

---------------------------------------------------------------------------
(* Running a method: a context [art, raised, calls, fail] is threaded      *)
(* through its statements.  fail names the collaborator call that raises   *)
(* in this run ("none": no call raises).                                   *)

\* the element of a one-element set: the value of an expression, computed once
The(S) == CHOOSE x \in S : TRUE

\* the run of a method on the article a: the article so far, the exception
\* raised, the collaborators called, the one that will raise, the local text
Ctx(a, fail) ==
    [art |-> a, raised |-> "", calls |-> <<>>, fail |-> fail, text |-> <<>>]

\* a statement that calls the collaborator `name` and then assigns: a2 is
\* the article after it.  A call that raises assigns nothing and ends the run.
Call(c, name, a2) ==
    IF c.raised # "" THEN c
    ELSE IF c.fail = name
         THEN [c EXCEPT !.raised = "CollaboratorError", !.calls = Append(@, name)]
         ELSE [c EXCEPT !.art = a2, !.calls = Append(@, name)]

\* a statement that calls nothing that can raise
Do(c, a2) == IF c.raised # "" THEN c ELSE [c EXCEPT !.art = a2]

\* the outcome of a method: the article, the exception, the calls made
Outcome(c) == [art |-> c.art, raised |-> c.raised, calls |-> c.calls]

---------------------------------------------------------------------------
(* Article.download                                                        *)

\* what the network does in one download: raise, or return a document
DownloadEnvs ==
    {[fail |-> "get_html", html |-> <<>>]}
        \cup {[fail |-> "none", html |-> h] : h \in StageHtmlInputs}

\* the downloads that return a document
DownloadOkEnvs == {[fail |-> "none", html |-> h] : h \in HtmlInputs}

\* mutant: a download that sets is_downloaded before it fetches
download_FlagFirst(a, e) ==
    The({ Outcome([c1 EXCEPT !.art.is_downloaded = TRUE])
          : c1 \in {Call(Ctx(a, e.fail), "get_html", [a EXCEPT !.html = e.html])} })

\* mutant: a download that marks the article as not parsed again
download_Unparsing(a, e) ==
    The({ Outcome(Do(c1, [c1.art EXCEPT !.is_downloaded = TRUE, !.is_parsed = FALSE]))
          : c1 \in {Call(Ctx(a, e.fail), "get_html", [a EXCEPT !.html = e.html])} })

download(a, e) ==
    The({ Outcome(Do(c1, [c1.art EXCEPT !.is_downloaded = TRUE]))
          : c1 \in {Call(Ctx(a, e.fail), "get_html", [a EXCEPT !.html = e.html])} })

---------------------------------------------------------------------------
(* Article.parse and the collaborators it drives                           *)

\* what the extractors read in a tree
PageOf(doc) == IF doc = None THEN NoPage ELSE PageData(doc.page)

\* mutant: a parse candidate without a link hash
get_parse_candidate_NoHash(a) == [url |-> a.url, link_hash |-> <<>>]

\* Article.get_parse_candidate(crawl_candidate): RawHelper hashes the
\* supplied html, URLHelper the url
get_parse_candidate(a) ==
    IF Truthy(a.html)
    THEN [url |-> a.url, link_hash |-> <<"#">> \o a.url \o a.html]
    ELSE [url |-> a.url, link_hash |-> <<"#">> \o a.url]

RECURSIVE Strip(_)
\* k.strip()
Strip(k) ==
    IF k # <<>> /\ k[1] = " " THEN Strip(Tail(k))
    ELSE IF k # <<>> /\ k[Len(k)] = " " THEN Strip(SubSeq(k, 1, Len(k) - 1))
    ELSE k

\* mutant: the keywords of the string without the empty ones
SplitKeywords_NoEmpty(meta_keywords) ==
    LET ks == Split_Whitespace(meta_keywords, ",") IN [i \in 1..Len(ks) |-> Strip(ks[i])]

\* [k.strip() for k in meta_keywords.split(',')]
SplitKeywords(meta_keywords) ==
    LET ks == Split(meta_keywords, ",") IN [i \in 1..Len(ks) |-> Strip(ks[i])]

\* document_cleaner.clean(article)
clean(doc) == [doc EXCEPT !.cleaned = TRUE]

\* extractor.calculate_best_node(article)
calculate_best_node(doc) ==
    IF PageOf(doc).has_node THEN [page |-> doc.page, post_cleaned |-> FALSE] ELSE None

\* extractor.post_cleanup(top_node)
post_cleanup(node) == [node EXCEPT !.post_cleaned = TRUE]

\* mutant: parse() without its check of is_downloaded
ParsePrecondition_Unchecked(a) == TRUE

\* if not self.is_downloaded: raise ArticleException()
ParsePrecondition(a) == a.is_downloaded

\* the name f starts with pre
HasPrefix(f, pre) == Len(f) >= Len(pre) /\ SubSeq(f, 1, Len(pre)) = pre

\* mutant: the pattern '%s*', without the separator after the link hash
glob_NoSeparator(link_hash, files) == {f \in files : HasPrefix(f, link_hash)}

\* glob.glob(os.path.join(local_storage_path, '%s_*' % link_hash)): the
\* files of the storage whose name starts with the link hash and "_"
glob(link_hash, files) == {f \in files : HasPrefix(f, link_hash \o <<"_">>)}

\* Article.relase_resources(article) as one statement of a parse() that runs
\* alone on a storage without scratch files: the glob lists nothing and
\* nothing is removed.  (The parse() calls that share a storage run it in
\* steps: ReleaseList, ReleaseRemove.)
relase_resources(c) ==
    IF c.raised # "" THEN c ELSE [c EXCEPT !.calls = Append(@, "relase_resources")]

\* mutant: set_reddit_top_img without its try/except
set_reddit_top_img_Propagating(c, scraper) ==
    IF c.raised # "" THEN c
    ELSE IF c.art.top_img # <<>> THEN c
    ELSE IF scraper = <<"raises">>
         THEN [c EXCEPT !.raised = "CollaboratorError", !.calls = Append(@, "Scraper")]
         ELSE [c EXCEPT !.art.top_img = scraper, !.calls = Append(@, "Scraper")]

\* Article.set_reddit_top_img(): scraper is what images.Scraper does, "raises"
\* or the url it returns
set_reddit_top_img(c, scraper) ==
    IF c.raised # "" THEN c
    ELSE IF c.art.top_img # <<>> THEN c
    ELSE IF scraper = <<"raises">>
         THEN [c EXCEPT !.calls = Append(@, "Scraper")]
         ELSE [c EXCEPT !.art.top_img = scraper, !.calls = Append(@, "Scraper")]

\* self.set_title(title); self.set_authors(authors); self.set_text(text);
\* self.set_keywords(self.meta_keywords)
ParseAssign(a, title, authors, text) ==
    The({ The({ The({ set_keywords(a3, List(a3.meta_keywords)).art
                      : a3 \in {set_text(a2, text).art} })
                : a2 \in {set_authors(a1, List(authors)).art} })
          : a1 \in {set_title(a, title).art} })

\* mutant: a parse that cleans the tree right after cloning it
ParseStatements_CleanFirst ==
    <<"fromstring", "deepcopy", "clean", "get_parsing_candidate", "get_title",
      "get_authors", "get_meta_lang", "get_favicon", "get_meta_description",
      "get_canonical_link", "extract_tags", "get_meta_keywords",
      "calculate_best_node", "get_videos", "post_cleanup", "get_formatted_text",
      "setters", "relase_resources", "get_top_img_url", "get_img_urls",
      "set_reddit_top_img", "is_parsed">>

\* the statements of parse, in their order: the collaborator a statement
\* calls, or what it assigns
ParseStatements ==
    <<"fromstring", "deepcopy", "get_parsing_candidate", "get_title", "get_authors",
      "get_meta_lang", "get_favicon", "get_meta_description", "get_canonical_link",
      "extract_tags", "get_meta_keywords", "clean", "calculate_best_node",
      "get_videos", "post_cleanup", "get_formatted_text", "setters",
      "relase_resources", "get_top_img_url", "get_img_urls", "set_reddit_top_img",
      "is_parsed">>

\* the statements of parse that call a collaborator which can raise
ParseFailPoints ==
    {"fromstring", "get_parsing_candidate", "get_title", "get_authors",
     "get_meta_lang", "get_favicon", "get_meta_description", "get_canonical_link",
     "extract_tags", "get_meta_keywords", "clean", "calculate_best_node",
     "get_videos", "post_cleanup", "get_formatted_text", "get_top_img_url",
     "get_img_urls"}

\* what the collaborators do in one parse
ParseEnvs ==
    {[fail |-> f, scraper |-> <<"raises">>] : f \in ParseFailPoints}
        \cup {[fail |-> "none", scraper |-> s] : s \in {<<"raises">>, <<"s">>}}

\* the runs of parse in which no collaborator raises but the scraper
ParseOkEnvs == {e \in ParseEnvs : e.fail = "none"}

\* one statement of parse, run in the context c; page is what the extractors
\* read in self.doc, and c.text the local variable text
ParseStatement(c, e, stmt) ==
    LET a    == c.art
        page == PageOf(a.doc)
    IN  CASE stmt = "fromstring" ->
               Call(c, stmt, [a EXCEPT !.doc = fromstring(a.html)])
          [] stmt = "deepcopy" ->
               Do(c, [a EXCEPT !.raw_doc = deepcopy(a.doc)])
          [] stmt = "get_parsing_candidate" ->
               Call(c, stmt, [a EXCEPT !.final_url = get_parse_candidate(a).url,
                                       !.link_hash = get_parse_candidate(a).link_hash])
          [] stmt \in {"get_title", "get_authors"} ->
               Call(c, stmt, a)
          [] stmt = "get_meta_lang" ->
               Call(c, stmt, [a EXCEPT !.meta_lang = page.meta])
          [] stmt = "get_favicon" ->
               Call(c, stmt, [a EXCEPT !.meta_favicon = page.meta])
          [] stmt = "get_meta_description" ->
               Call(c, stmt, [a EXCEPT !.meta_description = page.meta])
          [] stmt = "get_canonical_link" ->
               Call(c, stmt, [a EXCEPT !.canonical_link = page.meta])
          [] stmt = "extract_tags" ->
               Call(c, stmt, [a EXCEPT !.tags = page.tags])
          [] stmt = "get_meta_keywords" ->
               Call(c, stmt, [a EXCEPT !.meta_keywords =
                                           SplitKeywords(page.meta_keywords)])
          [] stmt = "clean" ->
               Call(c, stmt, [a EXCEPT !.doc = clean(a.doc)])
          [] stmt = "calculate_best_node" ->
               Call(c, stmt, [a EXCEPT !.top_node = calculate_best_node(a.doc)])
          [] stmt = "get_videos" ->
               IF a.top_node # None
               THEN Call(c, stmt, [a EXCEPT !.movies = PageOf(a.top_node).movies])
               ELSE c
          [] stmt = "post_cleanup" ->
               IF a.top_node # None
               THEN Call(c, stmt, [a EXCEPT !.top_node = post_cleanup(a.top_node)])
               ELSE c
          [] stmt = "get_formatted_text" ->
               IF a.top_node # None
               THEN IF c.raised = "" /\ c.fail # stmt
                    THEN [Call(c, stmt, a) EXCEPT !.text = PageOf(a.top_node).text]
                    ELSE Call(c, stmt, a)
               ELSE c
          [] stmt = "setters" ->
               Do(c, ParseAssign(a, page.title, page.authors, c.text))
          [] stmt = "relase_resources" ->
               relase_resources(c)
          [] stmt = "get_top_img_url" ->
               IF a.raw_doc # None
               THEN Call(c, stmt, [a EXCEPT !.top_img =
                                       fix_unicode(PageOf(a.raw_doc).top_img)])
               ELSE c
          [] stmt = "get_img_urls" ->
               IF a.raw_doc # None
               THEN Call(c, stmt, [a EXCEPT !.imgs = FixEach(PageOf(a.raw_doc).imgs)])
               ELSE c
          [] stmt = "set_reddit_top_img" ->
               set_reddit_top_img(c, e.scraper)
          [] stmt = "is_parsed" ->
               Do(c, [a EXCEPT !.is_parsed = TRUE])

RECURSIVE ParseFrom(_, _, _)
\* the statements of parse from the i-th on, run in the context c
ParseFrom(c, e, i) ==
    IF i > Len(ParseStatements) THEN c
    ELSE The({ ParseFrom(ParseStatement(v, e, ParseStatements[i]), e, i + 1)
               : v \in {c} })

RECURSIVE ParseRange(_, _, _, _)
\* the statements of parse from the i-th to the j-th, run in the context c
ParseRange(c, e, i, j) ==
    IF i > j THEN c
    ELSE The({ ParseRange(ParseStatement(v, e, ParseStatements[i]), e, i + 1, j)
               : v \in {c} })

\* Article.parse()
parse(a, e) ==
    IF ~ParsePrecondition(a)
    THEN [art |-> a, raised |-> "ArticleException", calls |-> <<>>]
    ELSE Outcome(ParseFrom(Ctx(a, e.fail), e, 1))

---------------------------------------------------------------------------
(* Article.nlp                                                             *)

\* mutant: nlp() checking is_downloaded only
NlpPrecondition_DownloadedOnly(a) == a.is_downloaded

\* if not self.is_downloaded or not self.is_parsed: raise ArticleException()
NlpPrecondition(a) == a.is_downloaded /\ a.is_parsed

RECURSIVE Join(_, _)
\* sep.join(xs)
Join(sep, xs) ==
    IF xs = <<>> THEN <<>>
    ELSE IF Len(xs) = 1 THEN xs[1]
    ELSE xs[1] \o sep \o Join(sep, Tail(xs))

\* what the nlp module does in one call: keyws is list(set(title_keyws +
\* text_keyws)), sents what nlp.summarize returns
NlpEnvs ==
    {[fail |-> f, keyws |-> <<>>, sents |-> <<>>] :
        f \in {"keywords_text", "keywords_title", "summarize"}}
    \cup {[fail |-> "none", keyws |-> <<>>, sents |-> <<>>],
          [fail |-> "none", keyws |-> [i \in 1..(MAX_KEYWORDS + 1) |-> <<"n", "~">>],
           sents |-> << Rep("s", MAX_SUMMARY), <<"~">> >>]}

\* the statements of nlp, in their order
NlpStatements ==
    <<"keywords_text", "keywords_title", "set_keywords", "summarize", "set_summary">>

\* one statement of nlp, run in the context c
NlpStatement(c, e, stmt) ==
    LET a == c.art
    IN  CASE stmt \in {"keywords_text", "keywords_title", "summarize"} ->
               Call(c, stmt, a)
          [] stmt = "set_keywords" ->
               Do(c, set_keywords(a, List(e.keyws)).art)
          [] stmt = "set_summary" ->
               Do(c, set_summary(a, Join(<<"\r", "\n">>, e.sents)).art)

RECURSIVE NlpFrom(_, _, _)
\* the statements of nlp from the i-th on, run in the context c
NlpFrom(c, e, i) ==
    IF i > Len(NlpStatements) THEN c
    ELSE The({ NlpFrom(NlpStatement(v, e, NlpStatements[i]), e, i + 1) : v \in {c} })

\* Article.nlp()
nlp(a, e) ==
    IF ~NlpPrecondition(a)
    THEN [art |-> a, raised |-> "ArticleException", calls |-> <<>>]
    ELSE Outcome(NlpFrom(Ctx(a, e.fail), e, 1))

---------------------------------------------------------------------------
(* Article.build                                                           *)

\* self.download(); self.parse(); self.nlp(): a stage that raises ends build
build(a, de, pe, ne) ==
    The({ IF r1.raised # "" THEN r1
          ELSE The({ IF r2.raised # ""
                     THEN [r2 EXCEPT !.calls = r1.calls \o @]
                     ELSE The({ [r3 EXCEPT !.calls = r1.calls \o r2.calls \o @]
                                : r3 \in {nlp(r2.art, ne)} })
                     : r2 \in {parse(r1.art, pe)} })
          : r1 \in {download(a, de)} })

---------------------------------------------------------------------------
(* The queries                                                             *)

\* mutant: get_key() without its check of is_parsed
get_key_Unchecked(a) == [raised |-> "", ret |-> a.link_hash]

\* Article.get_key()
get_key(a) ==
    IF ~a.is_parsed THEN [raised |-> "ArticleException", ret |-> None]
    ELSE [raised |-> "", ret |-> a.link_hash]

safe_urls ==
    { <<"/", "v", "i", "d", "e", "o">>,
      <<"/", "s", "l", "i", "d", "e">>,
      <<"/", "g", "a", "l", "l", "e", "r", "y">>,
      <<"/", "p", "o", "w", "e", "r", "p", "o", "i", "n", "t">>,
      <<"/", "f", "a", "s", "h", "i", "o", "n">>,
      <<"/", "g", "l", "a", "m", "o", "u", "r">>,
      <<"/", "c", "l", "o", "t", "h">> }

\* Article.is_media_news()
is_media_news(a) == \E s \in safe_urls : Contains(s, a.url)

\* wordcount > (self.configs.MIN_WORD_COUNT - 50), wordcount a list: CPython 2
\* orders values of different types by the name of the type, and
\* 'list' > 'int', so a list is greater than every int
Py2ListGreaterThanInt(list, n) == TRUE

\* Article.is_valid_body()
is_valid_body(a) ==
    IF ~a.is_parsed THEN [raised |-> "ArticleException", ret |-> None]
    ELSE LET meta_type == get_meta_type(a.raw_doc)
             wordcount == Split(a.text, " ")
             sentcount == Split(a.text, ".")
         IN  [raised |-> "",
              ret |->
                IF /\ meta_type = MetaArticle
                   /\ Py2ListGreaterThanInt(wordcount, MIN_WORD_COUNT - WORD_COUNT_MARGIN)
                THEN TRUE
                ELSE IF ~is_media_news(a) /\ ~Truthy(a.text) THEN FALSE
                ELSE IF Len(Split(a.title, " ")) < 2 THEN FALSE
                ELSE IF Len(wordcount) < MIN_WORD_COUNT THEN FALSE
                ELSE IF Len(sentcount) < MIN_SENT_COUNT THEN FALSE
                ELSE IF a.html = <<>> THEN FALSE
                ELSE TRUE]

---------------------------------------------------------------------------
(* The calls a program makes on one Article                                *)

\* a stage call with outcome r
Stage(name, r) ==
    /\ art' = r.art
    /\ op' = name
    /\ args' = <<>>
    /\ raised' = r.raised
    /\ ret' = None
    /\ calls' = r.calls
    /\ UNCHANGED <<storage, procs, bus>>

\* a setter call with argument x and outcome r
Setter(name, x, r) ==
    /\ art' = r.art
    /\ op' = name
    /\ args' = x
    /\ raised' = r.raised
    /\ ret' = None
    /\ calls' = <<>>
    /\ UNCHANGED <<storage, procs, bus>>

\* a query with outcome r
Query(name, r) ==
    /\ art' = art
    /\ op' = name
    /\ args' = <<>>
    /\ raised' = r.raised
    /\ ret' = r.ret
    /\ calls' = <<>>
    /\ UNCHANGED <<storage, procs, bus>>

Download(envs) ==
    /\ Constructed
    /\ fetched < MaxFetches
    /\ fetched' = fetched + 1
    /\ \E e \in envs : \E r \in {download(art, e)} : Stage("download", r)

Parse(envs) ==
    /\ Constructed
    /\ UNCHANGED fetched
    /\ \E e \in envs : \E r \in {parse(art, e)} : Stage("parse", r)

Nlp(envs) ==
    /\ Constructed
    /\ UNCHANGED fetched
    /\ \E e \in envs : \E r \in {nlp(art, e)} : Stage("nlp", r)

\* the environments of a stage that runs after a stage with environment e:
\* one is enough when that stage raises, since the later stage is not run
After(e, envs) == IF e.fail = "none" THEN envs ELSE {CHOOSE x \in envs : TRUE}

Build(denvs, penvs, nenvs) ==
    /\ Constructed
    /\ fetched < MaxFetches
    /\ fetched' = fetched + 1
    /\ \E de \in denvs : \E pe \in After(de, penvs) : \E ne \in After(pe, nenvs) :
         \E r \in {build(art, de, pe, ne)} : Stage("build", r)

TitleInputs == {<<>>, <<"~">>, <<"a", " ", "b">>, Rep("b", MAX_TITLE + 1)}

TextInputs == {<<>>, <<"x">>, Rep("x", MAX_TEXT)}

SummaryInputs == {<<>>, <<"s">>, Rep("s", MAX_SUMMARY + 1)}

KeywordInputs ==
    {List(<<>>), List(<< <<"~">> >>),
     List([i \in 1..(MAX_KEYWORDS + 1) |-> Rep("k", i) \o <<"~">>]), Str(<<"k">>)}

AuthorInputs ==
    {List(<<>>), List(<< <<"~">> >>),
     List([i \in 1..(MAX_AUTHORS + 1) |-> Rep("J", i) \o <<"~">>]), Str(<<"J">>)}

SetTitle ==
    /\ Constructed
    /\ UNCHANGED fetched
    /\ \E x \in TitleInputs : Setter("set_title", x, set_title(art, x))

SetText ==
    /\ Constructed
    /\ UNCHANGED fetched
    /\ \E x \in TextInputs : Setter("set_text", x, set_text(art, x))

SetSummary ==
    /\ Constructed
    /\ UNCHANGED fetched
    /\ \E x \in SummaryInputs : Setter("set_summary", x, set_summary(art, x))

SetKeywords ==
    /\ Constructed
    /\ UNCHANGED fetched
    /\ \E x \in KeywordInputs : Setter("set_keywords", x, set_keywords(art, x))

SetAuthors ==
    /\ Constructed
    /\ UNCHANGED fetched
    /\ \E x \in AuthorInputs : Setter("set_authors", x, set_authors(art, x))

GetKey ==
    /\ Constructed
    /\ UNCHANGED fetched
    /\ Query("get_key", get_key(art))

IsValidBody ==
    /\ Constructed
    /\ UNCHANGED fetched
    /\ Query("is_valid_body", is_valid_body(art))

IsMediaNews ==
    /\ Constructed
    /\ UNCHANGED fetched
    /\ Query("is_media_news", [raised |-> "", ret |-> is_media_news(art)])

\* what the collaborators of parse do in one build: none raises, or one of
\* the tree builder, an extractor of metadata, the selection of the best
\* node, the extractor of images
BuildParseEnvs ==
    {e \in ParseEnvs : e.fail \in {"none", "fromstring", "get_title",
                                   "calculate_best_node", "get_img_urls"}}

\* what the nlp module does in one build: the summary raises, or none does
BuildNlpEnvs == {e \in NlpEnvs : e.fail = "summarize" \/ e.keyws # <<>>}

\* what the collaborators of parse do in one parse of the lifecycle: none
\* raises, or one of the tree builder, the first and the last extractor of
\* metadata, the cleaner, the selection of the best node, the first and the
\* last extractor of images
StageParseEnvs ==
    {e \in ParseEnvs : e.fail \in {"none", "fromstring", "get_title",
                                   "get_meta_keywords", "clean",
                                   "calculate_best_node", "get_top_img_url",
                                   "get_img_urls"}}

Next ==
    \/ Download(DownloadEnvs)
    \/ Parse(StageParseEnvs)
    \/ Nlp(NlpEnvs)
    \/ Build(DownloadEnvs, BuildParseEnvs, BuildNlpEnvs)

\* the lifecycle of one Article: the stages, with collaborators that may raise
Spec == Init /\ [][Next]_vars

NextSetters ==
    \/ SetTitle
    \/ SetText
    \/ SetSummary
    \/ SetKeywords
    \/ SetAuthors

\* the constructor and the setters
SpecSetters == Construct(CtorInputs) /\ [][NextSetters]_vars

NextBody ==
    \/ Download(DownloadOkEnvs)
    \/ Parse(ParseOkEnvs)
    \/ GetKey
    \/ IsValidBody
    \/ IsMediaNews

\* the queries on an article that is downloaded and parsed, and again
SpecBody == Construct(BodyCtorInputs) /\ [][NextBody]_vars

\* the setter name called with x
ApplySetter(a, name, x) ==
    CASE name = "set_title"    -> set_title(a, x)
      [] name = "set_text"     -> set_text(a, x)
      [] name = "set_summary"  -> set_summary(a, x)
      [] name = "set_keywords" -> set_keywords(a, x)
      [] name = "set_authors"  -> set_authors(a, x)

\* one call of each setter, one of them raising
SetterCalls ==
    <<[name |-> "set_title", x |-> <<"~">>],
      [name |-> "set_text", x |-> <<"x">>],
      [name |-> "set_summary", x |-> <<"s">>],
      [name |-> "set_keywords", x |-> Str(<<"k">>)],
      [name |-> "set_authors", x |-> List(<< <<"~">> >>)]>>

\* a call of one of the setters of inputs
SetField(inputs) ==
    /\ Constructed
    /\ UNCHANGED fetched
    /\ \E i \in 1..Len(inputs) :
         \E r \in {ApplySetter(art, inputs[i].name, inputs[i].x)} :
             Setter(inputs[i].name, inputs[i].x, r)

\* what the collaborators of parse do when every operation may be called:
\* none raises, or an extractor of metadata does
CallParseEnvs == {e \in ParseEnvs : e.fail \in {"none", "get_title"}}

NextCalls ==
    \/ Download(DownloadEnvs)
    \/ Parse(CallParseEnvs)
    \/ Nlp(BuildNlpEnvs)
    \/ Build(DownloadEnvs, CallParseEnvs, BuildNlpEnvs)
    \/ SetField(SetterCalls)
    \/ GetKey
    \/ IsValidBody
    \/ IsMediaNews

\* any sequence of stage, setter and query calls on one Article
SpecCalls == Init /\ [][NextCalls]_vars

---------------------------------------------------------------------------
(* Two parse() calls that run concurrently, each on its own Article, with  *)
(* the same configs.local_storage_path.  A parse() is atomic but for its   *)
(* resource release, which lists the scratch files and then removes them   *)
(* one by one; other programs may delete files of the storage meanwhile.   *)

Procs == {1, 2}

\* the documents the two articles have downloaded
ProcHtml == << <<>>, Chars("web_full") >>

\* the Article of process p: constructed and downloaded
ProcArticle(p) ==
    download(ArticleInit(UrlPlain, <<>>, <<>>).art,
             [fail |-> "none", html |-> ProcHtml[p]]).art

\* the link hash the parse() of process p resolves
ProcHash(p) == get_parse_candidate(ProcArticle(p)).link_hash

\* the scratch file of a link hash with the given suffix
ScratchName(link_hash, suffix) == link_hash \o <<"_", suffix>>

\* the files the storage may hold: scratch files of the two articles and a
\* file of another article
ScratchFiles ==
    {ScratchName(ProcHash(1), "x"), ScratchName(ProcHash(2), "x"),
     ScratchName(ProcHash(2), "y"), ScratchName(<<"#", "o">>, "x")}

\* the position of self.relase_resources(self) in parse
ReleaseAt == IndexOf(<<"relase_resources">>, ParseStatements)

\* process p before its parse(): e is what the collaborators will do, todo
\* the files listed and not yet removed, removed the files it deleted, failed
\* the files whose os.remove raised OSError
ProcStart(p, e) ==
    [c |-> Ctx(ProcArticle(p), e.fail), e |-> e, pc |-> "start",
     todo |-> {}, removed |-> {}, failed |-> {}]

InitStorage ==
    /\ art = NoArticle
    /\ op = ""
    /\ args = <<>>
    /\ raised = ""
    /\ ret = None
    /\ calls = <<>>
    /\ fetched = 0
    /\ bus = NoBus
    /\ storage \in SUBSET ScratchFiles
    /\ \E es \in [Procs -> ParseOkEnvs] : procs = [p \in Procs |-> ProcStart(p, es[p])]

\* the variables of the Article that is called alone, and the worker
OneArticle == <<art, op, args, raised, ret, calls, fetched, bus>>

\* parse() of process p up to self.set_keywords(self.meta_keywords)
ParseBegin(p) ==
    /\ procs[p].pc = "start"
    /\ procs' = [procs EXCEPT ![p] =
          IF ~ParsePrecondition(@.c.art)
          THEN [@ EXCEPT !.c.raised = "ArticleException", !.pc = "done"]
          ELSE [@ EXCEPT !.c = ParseRange(@, procs[p].e, 1, ReleaseAt - 1),
                         !.pc = "glob"]]
    /\ UNCHANGED <<storage, OneArticle>>

\* for fname in glob.glob(path): the listing
ReleaseList(p) ==
    /\ procs[p].pc = "glob"
    /\ procs' = [procs EXCEPT ![p] =
          [@ EXCEPT !.todo = glob(procs[p].c.art.link_hash, storage),
                    !.pc = "remove"]]
    /\ UNCHANGED <<storage, OneArticle>>

\* try: os.remove(fname) / except OSError: pass, for one listed file in the
\* order of the listing, which is any order: os.remove raises OSError when
\* the file is gone or when the system denies the removal
ReleaseRemove(p) ==
    /\ procs[p].pc = "remove"
    /\ \E f \in procs[p].todo : \E denied \in BOOLEAN :
         IF f \in storage /\ ~denied
         THEN /\ storage' = storage \ {f}
              /\ procs' = [procs EXCEPT ![p] =
                    [@ EXCEPT !.todo = @ \ {f}, !.removed = @ \cup {f}]]
         ELSE /\ storage' = storage
              /\ procs' = [procs EXCEPT ![p] =
                    [@ EXCEPT !.todo = @ \ {f}, !.failed = @ \cup {f}]]
    /\ UNCHANGED OneArticle

\* parse() of process p from the end of the release to self.is_parsed = True
ParseEnd(p) ==
    /\ procs[p].pc = "remove"
    /\ procs[p].todo = {}
    /\ procs' = [procs EXCEPT ![p] =
          [@ EXCEPT !.c = ParseRange(relase_resources(@), procs[p].e,
                                     ReleaseAt + 1, Len(ParseStatements)),
                    !.pc = "done"]]
    /\ UNCHANGED <<storage, OneArticle>>

\* another program deletes a file of the storage
Vanish ==
    /\ procs # <<>>
    /\ \E f \in storage : storage' = storage \ {f}
    /\ UNCHANGED <<procs, OneArticle>>

NextStorage ==
    \/ \E p \in Procs : ParseBegin(p)
    \/ \E p \in Procs : ReleaseList(p)
    \/ \E p \in Procs : ReleaseRemove(p)
    \/ \E p \in Procs : ParseEnd(p)
    \/ Vanish

\* two concurrent parse() calls on one local storage
SpecStorage == InitStorage /\ [][NextStorage]_vars

---------------------------------------------------------------------------
(* The worker of src/parse.py: it subscribes to the channel urls_for_parse *)
(* and, in an endless loop, takes a message, builds the Article of its     *)
(* url, downloads and parses it and publishes the text on parsed_urls.     *)

\* at most MaxMessages messages are sent on urls_for_parse
MaxMessages == 3

\* the confirmation of p.subscribe('urls_for_parse'): message['data'] == 1
SubscribeAck == [kind |-> "subscribe", url |-> <<>>, lng |-> ""]

\* the messages sent on urls_for_parse: json of {"url": ..., "lng": ...}
WorkerMessages ==
    {[kind |-> "message", url |-> u, lng |-> l] :
        u \in {UrlPlain, UrlMedia, UrlRelative}, l \in {"tg", "en"}}

\* the parameters of Article.__init__
InitParameters == {"url", "title", "source_url", "configs"}

\* Article(url, **keywords): a keyword that is no parameter of __init__ is a
\* TypeError of the call
ArticleCall(url, keywords) ==
    IF keywords \subseteq InitParameters
    THEN ArticleInit(url, <<>>, <<>>)
    ELSE [art |-> NoArticle, raised |-> "TypeError"]

\* article.name: an attribute the object does not have is an AttributeError
HasAttribute(a, name) == name \in DOMAIN a

\* the body of the loop for the message m: the exception that ends it, or the
\* result published.  de and pe are what the network and the collaborators
\* of parse do.
WorkerProcess(m, de, pe) ==
    The({ The({ The({
        IF r2.raised # "" THEN [raised |-> r2.raised, published |-> <<>>]
        ELSE IF ~HasAttribute(r2.art, "images")
             THEN [raised |-> "AttributeError", published |-> <<>>]
             ELSE [raised |-> "",
                   published |-> <<[article |-> r2.art.text,
                                    image_links |-> r2.art.imgs, url |-> m.url]>>]
        : r2 \in {IF r1.raised = "" THEN parse(r1.art, pe)
                                   ELSE [art |-> r1.art, raised |-> r1.raised]} })
        : r1 \in {IF r0.raised = "" THEN download(r0.art, de)
                                   ELSE [art |-> r0.art, raised |-> r0.raised]} })
        : r0 \in {ArticleCall(m.url, {"_language"})} })

InitWorker ==
    /\ art = NoArticle
    /\ op = ""
    /\ args = <<>>
    /\ raised = ""
    /\ ret = None
    /\ calls = <<>>
    /\ fetched = 0
    /\ storage = {}
    /\ procs = <<>>
    /\ bus = [inbox |-> <<SubscribeAck>>, results |-> <<>>, alive |-> TRUE,
              raised |-> "", consumed |-> 0]

\* the variables but the worker and its channels
NoWorker == <<art, op, args, raised, ret, calls, fetched, storage, procs>>

\* a program publishes a message on urls_for_parse
Send ==
    /\ bus # NoBus
    /\ Len(bus.inbox) + bus.consumed < MaxMessages
    /\ \E m \in WorkerMessages : bus' = [bus EXCEPT !.inbox = Append(@, m)]
    /\ UNCHANGED NoWorker

\* one turn of the loop with no message: p.get_message() returns None
WorkerIdle ==
    /\ bus.alive
    /\ bus.inbox = <<>>
    /\ UNCHANGED vars

\* one turn of the loop with the subscription confirmation, which is skipped
WorkerSkip ==
    /\ bus.alive
    /\ bus.inbox # <<>>
    /\ Head(bus.inbox).kind = "subscribe"
    /\ bus' = [bus EXCEPT !.inbox = Tail(@)]
    /\ UNCHANGED NoWorker

\* one turn of the loop with a message: an exception of the body is caught
\* nowhere and ends the loop and the program
WorkerTurn ==
    /\ bus.alive
    /\ bus.inbox # <<>>
    /\ Head(bus.inbox).kind = "message"
    /\ \E de \in DownloadEnvs : \E pe \in CallParseEnvs :
         \E r \in {WorkerProcess(Head(bus.inbox), de, pe)} :
            bus' = [bus EXCEPT !.inbox = Tail(@),
                               !.consumed = @ + 1,
                               !.results = @ \o r.published,
                               !.raised = r.raised,
                               !.alive = (r.raised = "")]
    /\ UNCHANGED NoWorker

NextWorker ==
    \/ Send
    \/ WorkerIdle
    \/ WorkerSkip
    \/ WorkerTurn

\* the worker and the programs that send it messages
SpecWorker == InitWorker /\ [][NextWorker]_vars

---------------------------------------------------------------------------
(* Properties of the lifecycle                                             *)

\* C1: a parse() called while is_downloaded is false, and an nlp() called
\* while is_downloaded or is_parsed is false, raises ArticleException (the
\* precondition error) and changes no field of the article.
C1_RejectedCallChangesNothing ==
    [][ /\ (op' = "parse" /\ ~art.is_downloaded)
            => (raised' = "ArticleException" /\ art' = art)
        /\ (op' = "nlp" /\ (~art.is_downloaded \/ ~art.is_parsed))
            => (raised' = "ArticleException" /\ art' = art) ]_vars

\* C1 happens: nlp() was rejected on an article that is downloaded and whose
\* parse() has run but raised part-way
C1_Witness ==
    /\ Constructed
    /\ op = "nlp" /\ raised = "ArticleException"
    /\ art.is_downloaded /\ ~art.is_parsed /\ art.doc # None

\* C2: in every state reached by download(), parse(), nlp() and build()
\* calls, failing ones included, is_parsed implies is_downloaded.
C2_ParsedImpliesDownloaded ==
    Constructed => (art.is_parsed => art.is_downloaded)

\* C2 happens: a parse() raised part-way on an article that an earlier
\* parse() had parsed
C2_Witness ==
    /\ Constructed
    /\ op = "parse" /\ raised = "CollaboratorError"
    /\ art.is_parsed /\ art.is_downloaded

\* C3 as claimed: link_hash is non-empty only when is_parsed is true.
C3_LinkHashOnlyOnceParsed ==
    Constructed => (art.link_hash # <<>> => art.is_parsed)

\* C3 as amended: link_hash is non-empty in every state where is_parsed is
\* true, and it is non-empty only once a parse() has passed its precondition,
\* that is only when is_downloaded is true; it may be non-empty while
\* is_parsed is false.
C3_LinkHashOnceParseStarted ==
    Constructed =>
        /\ art.is_parsed => art.link_hash # <<>>
        /\ art.link_hash # <<>> => art.is_downloaded

\* C3 happens: a parse() raised in a collaborator after the parse candidate
\* was resolved and left link_hash set on an article that is not parsed
C3_Witness ==
    /\ Constructed
    /\ op = "parse" /\ raised = "CollaboratorError"
    /\ art.link_hash # <<>> /\ ~art.is_parsed

\* a parse() in which best-node selection ran and returned no node
NoBestNodeParse ==
    /\ op' = "parse"
    /\ art'.top_node = None
    /\ \E i \in 1..Len(calls') :
         /\ calls'[i] = "calculate_best_node"
         /\ (i < Len(calls') \/ raised' = "")

\* video extraction, post-cleanup and text formatting were not invoked
BodyStepsSkipped ==
    \A i \in 1..Len(calls') :
        calls'[i] \notin {"get_videos", "post_cleanup", "get_formatted_text"}

\* C10 as claimed, for the runs of parse() in which no collaborator raises:
\* when best-node selection returns no node, the body steps are skipped and
\* parse() ends with text == "" and is_parsed == true, on a second parse() of
\* an article with text as on the first.
C10_NoNodeLeavesTextEmpty ==
    [][ (NoBestNodeParse /\ raised' = "")
            => (BodyStepsSkipped /\ art'.text = <<>> /\ art'.is_parsed) ]_vars

\* C10 as amended: when best-node selection returns no node, the body steps
\* are skipped and text keeps the value it had before the call (so it is ""
\* when it was "" before); parse() raises only if a collaborator called
\* after the selection raises, and otherwise ends with is_parsed == true.
C10_NoNodeKeepsText ==
    [][ NoBestNodeParse
            => /\ BodyStepsSkipped
               /\ art'.text = art.text
               /\ raised' \in {"", "CollaboratorError"}
               /\ raised' = "" => art'.is_parsed
               /\ raised' # "" =>
                    calls'[Len(calls')] \in {"get_top_img_url", "get_img_urls"} ]_vars

\* C10 happens: a parse() that found no best node returned on an article
\* whose earlier parse() had produced text
C10_Witness ==
    /\ Constructed
    /\ op = "parse" /\ raised = ""
    /\ \E i \in 1..Len(calls) : calls[i] = "calculate_best_node"
    /\ art.top_node = None /\ art.text # <<>> /\ art.is_parsed

---------------------------------------------------------------------------
(* Properties of the constructor and the setters                           *)

\* C4: a setter of title, text, summary, keywords or authors called with an
\* input whose normalized result is empty leaves the field as it was.
C4_EmptyInputKeepsValue ==
    [][ /\ (op' = "set_title" /\ fix_unicode(args') = <<>>) => art'.title = art.title
        /\ (op' = "set_text" /\ fix_unicode(args') = <<>>) => art'.text = art.text
        /\ (op' = "set_summary" /\ fix_unicode(args') = <<>>)
              => art'.summary = art.summary
        /\ (op' = "set_keywords" /\ args' = List(<<>>))
              => art'.keywords = art.keywords
        /\ (op' = "set_authors" /\ args' = List(<<>>))
              => art'.authors = art.authors ]_vars

\* C5: in every state from construction on, each capped field is within its
\* configured maximum.
C5_FieldsWithinCaps ==
    Constructed =>
        /\ Len(art.title) <= MAX_TITLE
        /\ Len(art.text) <= MAX_TEXT - TEXT_MARGIN
        /\ Len(art.summary) <= MAX_SUMMARY
        /\ Len(art.keywords) <= MAX_KEYWORDS
        /\ Len(art.authors) <= MAX_AUTHORS

\* C6: construction raises ArticleException (the validation error) and yields
\* no Article whenever the given source_url is empty, or no source_url is
\* given and the url has no scheme or no domain.
C6_BadSourceUrlRejected ==
    (/\ op = "__init__"
     /\ \/ args.source_url = << <<>> >>
        \/ /\ args.source_url = <<>>
           /\ (get_scheme(args.url) = <<>> \/ get_domain(args.url) = <<>>))
        => (raised = "ArticleException" /\ art = NoArticle)

---------------------------------------------------------------------------
(* Properties of is_valid_body, stated with counts of separators           *)

\* the number of pieces of s separated by the character c
Pieces(s, c) == Cardinality({i \in 1..Len(s) : s[i] = c}) + 1

\* the url contains one of the media-news substrings
MediaUrl(url) ==
    \E s \in { <<"/", "v", "i", "d", "e", "o">>, <<"/", "s", "l", "i", "d", "e">>,
               <<"/", "g", "a", "l", "l", "e", "r", "y">>,
               <<"/", "p", "o", "w", "e", "r", "p", "o", "i", "n", "t">>,
               <<"/", "f", "a", "s", "h", "i", "o", "n">>,
               <<"/", "g", "l", "a", "m", "o", "u", "r">>,
               <<"/", "c", "l", "o", "t", "h">> } :
        \E i \in 1..(Len(url) - Len(s) + 1) : SubSeq(url, i, i + Len(s) - 1) = s

\* rules 2 to 7 of the decision, in order
RulesTwoToSeven(a) ==
    CASE ~MediaUrl(a.url) /\ a.text = <<>>          -> FALSE
      [] Pieces(a.title, " ") < 2                   -> FALSE
      [] Pieces(a.text, " ") < MIN_WORD_COUNT       -> FALSE
      [] Pieces(a.text, ".") < MIN_SENT_COUNT       -> FALSE
      [] a.html = <<>>                              -> FALSE
      [] OTHER                                      -> TRUE

\* is_valid_body() returned on an article whose meta-type is "article" or not
BodyChecked(article_type) ==
    /\ Constructed
    /\ op = "is_valid_body" /\ raised = ""
    /\ (get_meta_type(art.raw_doc) = <<"article">>) = article_type

\* C7: on a page of meta-type "article" with fewer than MIN_WORD_COUNT - 50
\* words, rule 1 does not accept and the result is that of rules 2 to 7.
C7_ArticleRuleNeedsWords ==
    (BodyChecked(TRUE) /\ Pieces(art.text, " ") < MIN_WORD_COUNT - WORD_COUNT_MARGIN)
        => ret = RulesTwoToSeven(art)

\* C8: on an article with empty text and a url with none of the media-news
\* substrings, is_valid_body() returns false, whatever the meta-type is.
C8_EmptyTextInvalid ==
    (/\ Constructed
     /\ op = "is_valid_body" /\ raised = ""
     /\ art.text = <<>> /\ ~MediaUrl(art.url))
        => ret = FALSE

\* C9: on a page whose meta-type is not "article", is_valid_body() is the
\* ordered decision of rules 2 to 7; a media-news url with empty text is
\* rejected, and a text of MIN_WORD_COUNT words and MIN_SENT_COUNT sentences
\* with a title of two words or more and non-empty html is valid.
C9_OrderedDecision ==
    BodyChecked(FALSE) =>
        /\ ret = RulesTwoToSeven(art)
        /\ (MediaUrl(art.url) /\ art.text = <<>>) => ret = FALSE
        /\ (/\ Pieces(art.text, " ") >= MIN_WORD_COUNT
            /\ Pieces(art.text, ".") >= MIN_SENT_COUNT
            /\ Pieces(art.title, " ") >= 2
            /\ art.html # <<>>) => ret = TRUE

\* C9 happens: scenario B, a page that is not an "article" with a title of
\* three words, enough words and sentences and non-empty html, found valid
C9_Witness ==
    /\ BodyChecked(FALSE)
    /\ Pieces(art.title, " ") = 3
    /\ Pieces(art.text, " ") >= MIN_WORD_COUNT
    /\ ret = TRUE

---------------------------------------------------------------------------
(* Properties of get_key                                                   *)

\* C11: get_key() raises ArticleException (the precondition error) while
\* is_parsed is false; once is_parsed is true it returns link_hash, which is
\* non-empty; a get_key() that follows a get_key() returns the identical
\* value; and no get_key() changes a field.
C11_GetKeyStable ==
    [][ op' = "get_key"
            => /\ art' = art
               /\ ~art.is_parsed => raised' = "ArticleException"
               /\ art.is_parsed
                     => (raised' = "" /\ ret' = art.link_hash /\ ret' # <<>>)
               /\ (op = "get_key" /\ raised = "")
                     => (raised' = "" /\ ret' = ret) ]_vars

\* C11 happens: get_key() returned the link hash of a parsed article
C11_Witness ==
    /\ Constructed
    /\ op = "get_key" /\ raised = ""
    /\ art.is_parsed /\ ret = art.link_hash /\ ret # <<>>

---------------------------------------------------------------------------
(* Properties of set_keywords and set_authors                              *)

\* the first min(Len(xs), cap) elements of xs, each normalized, in order
FirstNormalized(xs, cap) ==
    [i \in 1..(IF Len(xs) <= cap THEN Len(xs) ELSE cap) |-> fix_unicode(xs[i])]

\* a call of the setter name with a non-empty list
NonEmptyListCall(name) ==
    op' = name /\ args'.type = "list" /\ args'.val # <<>>

\* C12: set_authors(xs) and set_keywords(xs) with a non-empty list xs store
\* exactly the first min(len(xs), MAX_AUTHORS), respectively
\* min(len(xs), MAX_KEYWORDS), elements of xs, each normalized, in input
\* order.
C12_FirstElementsStored ==
    [][ /\ NonEmptyListCall("set_authors")
            => art'.authors = FirstNormalized(args'.val, MAX_AUTHORS)
        /\ NonEmptyListCall("set_keywords")
            => art'.keywords = FirstNormalized(args'.val, MAX_KEYWORDS) ]_vars

\* C12 happens: scenario D, set_authors with MAX_AUTHORS + 1 distinct authors
\* left the first MAX_AUTHORS of them, normalized
C12_Witness ==
    /\ Constructed
    /\ op = "set_authors" /\ raised = ""
    /\ Len(args.val) = MAX_AUTHORS + 1
    /\ Len(art.authors) = MAX_AUTHORS
    /\ \A i \in 1..MAX_AUTHORS : art.authors[i] = Rep("J", i) \o <<"e">>

---------------------------------------------------------------------------
(* Properties of the flags                                                 *)

\* C13: is_downloaded and is_parsed are monotonic: over any sequence of
\* download(), parse(), nlp(), build(), setter and query calls, successful or
\* failing, a flag that is true in a state is true in the next state, and so
\* in every later state.
C13_FlagsMonotonic ==
    [][ Constructed
            => /\ art.is_downloaded => art'.is_downloaded
               /\ art.is_parsed => art'.is_parsed ]_vars

\* C13 happens: a download() raised on an article that is downloaded and
\* parsed, and both flags are still true
C13_Witness ==
    /\ Constructed
    /\ op = "download" /\ raised = "CollaboratorError"
    /\ art.is_downloaded /\ art.is_parsed

---------------------------------------------------------------------------
(* Properties of the resource release and of the fallback image scraper    *)

\* the run c invoked the collaborator name
Invoked(c, name) == \E i \in 1..Len(c.calls) : c.calls[i] = name

\* C14: the degraded paths of parse() are non-fatal: a parse() in which the
\* removal of a scratch file failed, or the fallback image scraper failed,
\* does not raise and ends with is_parsed == true; the fallback scraper is
\* invoked only when top_img is empty after primary extraction, and when it
\* fails top_img stays empty.
C14_DegradedPathsNonFatal ==
    \A p \in DOMAIN procs :
        procs[p].pc = "done" =>
            /\ procs[p].c.raised = ""
            /\ procs[p].c.art.is_parsed
            /\ Invoked(procs[p].c, "Scraper")
                  => fix_unicode(PageOf(procs[p].c.art.raw_doc).top_img) = <<>>
            /\ (Invoked(procs[p].c, "Scraper") /\ procs[p].e.scraper = <<"raises">>)
                  => procs[p].c.art.top_img = <<>>

\* C14 happens: a parse() ended in which the removal of a scratch file
\* raised OSError and the fallback scraper, invoked, raised
C14_Witness ==
    \E p \in DOMAIN procs :
        /\ procs[p].pc = "done"
        /\ procs[p].failed # {}
        /\ Invoked(procs[p].c, "Scraper") /\ procs[p].e.scraper = <<"raises">>
        /\ procs[p].c.art.top_img = <<>> /\ procs[p].c.art.is_parsed

\* C16: when two Articles with distinct link hashes run parse() concurrently
\* on one local storage, the release of one never lists or deletes a file
\* named with the "{link_hash}_" prefix of the other, and a file that is gone
\* when its removal is attempted does not make the parse() fail.
C16_ReleaseDoesNotCollide ==
    \A p \in DOMAIN procs : \A q \in DOMAIN procs :
        (p # q /\ ProcHash(p) # ProcHash(q)) =>
            /\ \A f \in procs[p].removed \cup procs[p].todo :
                  /\ ~HasPrefix(f, ProcHash(q) \o <<"_">>)
                  /\ HasPrefix(f, ProcHash(p) \o <<"_">>)
            /\ (procs[p].pc = "done" /\ procs[p].failed # {})
                  => (procs[p].c.raised = "" /\ procs[p].c.art.is_parsed)

\* C16 happens: both parse() calls ended, each deleted a scratch file of its
\* own, a removal of one of them raised OSError, and the file of a third
\* article is still there
C16_Witness ==
    /\ procs # <<>>
    /\ \A p \in DOMAIN procs : procs[p].pc = "done" /\ procs[p].removed # {}
    /\ \E p \in DOMAIN procs : procs[p].failed # {}
    /\ ScratchName(<<"#", "o">>, "x") \in storage

---------------------------------------------------------------------------
(* Properties of the worker                                                *)

\* C15: in the queue worker each consumed message leads to at most one
\* published result, and a message whose processing raised is dropped
\* without a result while the worker goes on: it is still running, to consume
\* and process the messages that follow.
C15_FailureDropsOneMessage ==
    /\ Len(bus.results) <= bus.consumed
    /\ bus.raised # "" => bus.alive

---------------------------------------------------------------------------
(* Properties of the order of the steps of parse                           *)

\* in the call that led to the next state, every invocation of y came after
\* an invocation of x
Precedes(x, y) ==
    \A j \in 1..Len(calls') :
        calls'[j] = y => \E i \in 1..(j - 1) : calls'[i] = x

\* in the call that led to the next state, the collaborator x was invoked
\* and returned
Completed(x) ==
    \E i \in 1..Len(calls') :
        calls'[i] = x /\ (i < Len(calls') \/ raised' = "")

\* the extractions of title, authors, meta fields, tags and meta-keywords
RawExtractions ==
    {"get_title", "get_authors", "get_meta_lang", "get_favicon",
     "get_meta_description", "get_canonical_link", "extract_tags",
     "get_meta_keywords"}

\* C17: within one parse() call raw_doc is cloned from doc before doc is
\* changed; title, authors, meta fields, tags and meta-keywords are all
\* extracted before the cleaner runs; the cleaner runs before best-node
\* selection; resource release precedes image resolution; is_parsed is set
\* last; and cleaning does not change raw_doc, so that image resolution has
\* the tree as it was before cleaning.
C17_ParseStepOrder ==
    [][ op' \in {"parse", "build"}
            => /\ \A x \in RawExtractions : Precedes(x, "clean")
               /\ Precedes("fromstring", "clean")
               /\ Precedes("clean", "calculate_best_node")
               /\ \A y \in {"get_top_img_url", "get_img_urls", "Scraper"} :
                     Precedes("relase_resources", y)
               /\ Completed("fromstring")
                     => art'.raw_doc = fromstring(art'.html)
               /\ Completed("clean")
                     => (art'.doc.cleaned /\ ~art'.raw_doc.cleaned)
               /\ (~art.is_parsed /\ art'.is_parsed)
                     => /\ op' = "parse" => raised' = ""
                        /\ \A x \in RawExtractions \cup
                                  {"clean", "calculate_best_node", "relase_resources",
                                   "get_top_img_url", "get_img_urls"} :
                              Completed(x) ]_vars

\* C17 happens: a parse() returned, the tree is cleaned, its clone is not,
\* and image resolution found the image of the page
C17_Witness ==
    /\ Constructed
    /\ op = "parse" /\ raised = ""
    /\ art.is_parsed
    /\ art.doc.cleaned /\ ~art.raw_doc.cleaned
    /\ art.top_img # <<>> /\ art.meta_keywords # <<>>

---------------------------------------------------------------------------
(* Properties of the type check of set_keywords and set_authors            *)

\* C18: set_keywords and set_authors called with an input that is not a list
\* raise (Exception, the type error) and leave keywords, authors and every
\* other field unchanged; called with a list they never raise.
C18_NonListRejected ==
    [][ op' \in {"set_keywords", "set_authors"}
            => /\ args'.type # "list" => (raised' = "Exception" /\ art' = art)
               /\ args'.type = "list" => raised' = "" ]_vars

\* C18 happens: set_keywords was called with a string on an article that has
\* keywords and authors, and raised
C18_Witness ==
    /\ Constructed
    /\ op = "set_keywords" /\ args.type = "str"
    /\ raised = "Exception"
    /\ art.keywords # <<>> /\ art.authors # <<>>

---------------------------------------------------------------------------
(* Properties of a stage that raises                                       *)

\* C19: a stage that raises leaves its completion flag as it was: when the
\* fetch of download() fails, html and is_downloaded are unchanged; when a
\* collaborator raises inside parse(), is_parsed keeps its prior value, and
\* is_parsed becomes true only in a parse() that returned; the fields
\* assigned earlier in the call may have changed.
C19_RaisingStageKeepsFlag ==
    [][ /\ (op' = "download" /\ raised' # "")
            => (art'.html = art.html /\ art'.is_downloaded = art.is_downloaded)
        /\ (op' = "parse" /\ raised' # "")
            => art'.is_parsed = art.is_parsed
        /\ (op' = "parse" /\ ~art.is_parsed /\ art'.is_parsed)
            => raised' = "" ]_vars

\* C19 happens: a collaborator raised inside the parse() of an article that
\* is not parsed, after the tree, the link hash and meta fields were assigned
C19_Witness ==
    /\ Constructed
    /\ op = "parse" /\ raised = "CollaboratorError"
    /\ ~art.is_parsed
    /\ art.doc # None /\ art.raw_doc # None
    /\ art.final_url # <<>> /\ art.link_hash # <<>> /\ art.meta_lang # <<>>

---------------------------------------------------------------------------
(* Properties of the keywords after parse                                  *)

\* C20 as claimed: after every parse() that returned, keywords is a
\* non-empty list equal to the first MAX_KEYWORDS entries of meta_keywords,
\* and a page with no meta keywords leaves meta_keywords == [""] and
\* keywords == [""].
C20_KeywordsEqualMetaKeywords ==
    [][ (op' = "parse" /\ raised' = "")
            => /\ art'.keywords # <<>>
               /\ art'.keywords = Slice(art'.meta_keywords, MAX_KEYWORDS)
               /\ PageOf(art'.raw_doc).meta_keywords = <<>>
                     => (art'.meta_keywords = << <<>> >> /\ art'.keywords = << <<>> >>)
      ]_vars

\* C20 as amended: after every parse() that returned, keywords is a
\* non-empty list equal to the first MAX_KEYWORDS entries of meta_keywords,
\* each normalized; the split of the raw meta-keywords string on commas has
\* at least one element, so a page with no meta keywords leaves
\* meta_keywords == [""] and keywords == [""] instead of the previous
\* keywords.
C20_KeywordsFromMetaKeywords ==
    [][ (op' = "parse" /\ raised' = "")
            => /\ art'.keywords # <<>>
               /\ art'.meta_keywords # <<>>
               /\ art'.keywords = FirstNormalized(art'.meta_keywords, MAX_KEYWORDS)
               /\ PageOf(art'.raw_doc).meta_keywords = <<>>
                     => (art'.meta_keywords = << <<>> >> /\ art'.keywords = << <<>> >>)
      ]_vars

\* C20 happens: a parse() of a page with no meta keywords returned on an
\* article whose earlier parse() had found text and keywords, and keywords
\* is [""]
C20_Witness ==
    /\ Constructed
    /\ op = "parse" /\ raised = ""
    /\ PageOf(art.raw_doc).meta_keywords = <<>>
    /\ art.text # <<>>
    /\ art.meta_keywords = << <<>> >> /\ art.keywords = << <<>> >>

===========================================================================
